---- MODULE Spec2Model ----
(***************************************************************************)
(* A model of MPoL's image model (src/mpol/images.py, class MpolImage) and *)
(* of the optimisation / cross-validation driver of the HD143006 tutorial  *)
(* (src/docs/large-tutorials/HD143006_part_2.py: train, test,              *)
(* cross_validate).                                                        *)
(*                                                                         *)
(* Numbers.  Pixel values, visibilities and losses are floating point in   *)
(* the program; here they are exact integers, with one extra value NaN for *)
(* a non-finite float.  Image sides are 2 or 4 pixels, for which every     *)
(* twiddle factor of the discrete Fourier transform is one of 1, -i, -1, i *)
(* and the transform is exact over the integers.  Angles are in units of   *)
(* one arcsecond, spatial frequencies in units of one Fourier-grid step.   *)
(***************************************************************************)
EXTENDS Integers, Sequences, FiniteSets, TLC

(***************************************************************************)
(* Bounds of the model.                                                    *)
(***************************************************************************)
MaxSamples == 2      \* longest dataset (number of visibility samples)
MaxUpdates == 1      \* parameter updates applied to one MpolImage
MaxForwards == 2     \* consecutive forward() calls in a row

(***************************************************************************)
(* Inputs that are enumerated.                                             *)
(***************************************************************************)
NpixInputs == {-2, -1, 0, 1, 2, 3, 4}
CellSizeInputs == {-1, 0, 1, 2}
\* (u, v) sample points, all inside the frequency range of every grid built
SamplePoints == {<<0, 0>>, <<1, 0>>, <<1, -1>>}

\* pixels an optimizer step may move
StepPixels == {<<0, 0>>, <<1, 1>>}

\* Python's None where a string is expected
None == "None"
\* Python's None (or a missing attribute) where an object is expected
NoObject == [none |-> TRUE]

(***************************************************************************)
(* Generic helpers.                                                        *)
(***************************************************************************)
RECURSIVE SumSeq(_)
SumSeq(s) == IF s = <<>> THEN 0 ELSE Head(s) + SumSeq(Tail(s))

Abs(x) == IF x < 0 THEN -x ELSE x

Distinct(s) == \A i, j \in 1..Len(s) : i # j => s[i] # s[j]

\* a UVDataset: the ordered (u, v) coordinates of its samples
MkDataset(pts) ==
  [uu |-> [k \in 1..Len(pts) |-> pts[k][1]],
   vv |-> [k \in 1..Len(pts) |-> pts[k][2]]]

SeqsUpTo(S, n) == UNION {[1..m -> S] : m \in 1..n}

Datasets == {MkDataset(p) : p \in {q \in SeqsUpTo(SamplePoints, MaxSamples) : Distinct(q)}}

(***************************************************************************)
(* numpy / torch / mpol.gridding routines used by MpolImage.               *)
(***************************************************************************)
\* np.fft.fftshift and np.fft.ifftshift of a 1-D array of even length n,
\* arrays being functions on 0..n-1: both rotate by n/2
fftshift(x, n) == [i \in 0..(n - 1) |-> x[(i + n - (n \div 2)) % n]]

\* gridding.fftspace(width, N): N points from -width, spacing 2*width/N
fftspace(width, N) == [i \in 0..(N - 1) |-> -width + i * ((2 * width) \div N)]

\* np.fft.rfftfreq(n, d) in units of 1/(n*d): 0, 1, ..., n/2
rfftfreq(n) == [i \in 0..(n \div 2) |-> i]

\* np.fft.fftfreq(n, d) in units of 1/(n*d): 0, 1, ..., n/2-1, -n/2, ..., -1
fftfreq(n) == [i \in 0..(n - 1) |-> IF i < n \div 2 THEN i ELSE i - n]

\* gridding.corrfun_mat(alphas, deltas): the separable gridding correction,
\* 1 at the image centre and growing towards the edge
corrfun_mat(alphas, deltas, n, cs) ==
  [p \in (0..(n - 1)) \X (0..(n - 1)) |->
     (1 + Abs(deltas[p[1]] \div cs)) * (1 + Abs(alphas[p[2]] \div cs))]

\* real and imaginary part of exp(-2 pi i m / n), n in {2, 4}
TwRe(n, m) == <<1, 0, -1, 0>>[(((m % n) * 4) \div n) + 1]
TwIm(n, m) == <<0, -1, 0, 1>>[(((m % n) * 4) \div n) + 1]

RECURSIVE SumIdx(_, _)
\* sum of f[0] .. f[k-1] for f a function on 0..(k-1)
SumIdx(f, k) == IF k = 0 THEN 0 ELSE f[k - 1] + SumIdx(f, k - 1)

\* torch.rfft(x, signal_ndim=2): one-sided 2-D transform, shape (n, n/2+1),
\* flattened row-major as torch.reshape(..., (-1, 1)) does; part is TwRe/TwIm
rfft_flat(x, n, part) ==
  [c \in 1..(n * ((n \div 2) + 1)) |->
     LET k1 == (c - 1) \div ((n \div 2) + 1)
         k2 == (c - 1) % ((n \div 2) + 1)
         term == [t \in 0..(n * n - 1) |->
                    LET a == t \div n
                        b == t % n
                    IN x[<<a, b>>] * (IF part = "re" THEN TwRe(n, a * k1 + b * k2)
                                                     ELSE TwIm(n, a * k1 + b * k2))]
     IN SumIdx(term, n * n)]

\* index (from 0) of value v in the axis array ax of length n
IndexOf(ax, n, v) == CHOOSE i \in 0..(n - 1) : ax[i] = v

\* gridding.calc_matrices(uu, vv, us, vs): one row per sample, in sample
\* order; the row picks the dense-grid node of the sample (COO format)
calc_matrices(uu, vv, us, vs, n) ==
  LET nu == (n \div 2) + 1
      C == [shape |-> <<Len(uu), n * nu>>,
            row |-> [k \in 1..Len(uu) |-> k - 1],
            col |-> [k \in 1..Len(uu) |->
                       IndexOf(vs, n, vv[k]) * nu + IndexOf(us, nu, uu[k])],
            data |-> [k \in 1..Len(uu) |-> 1]]
  IN [re |-> C, im |-> C]

\* torch.sparse.mm(C, v)[:, 0]: one entry per row of C
sparse_mm(C, v) ==
  [r \in 1..C.shape[1] |->
     SumSeq([k \in 1..Len(C.data) |->
               IF C.row[k] = r - 1 THEN C.data[k] * v[C.col[k] + 1] ELSE 0])]

(***************************************************************************)
(* State of one MpolImage and of its caller.                               *)
(***************************************************************************)
VARIABLES
  built,      \* TRUE once MpolImage(...) has returned an object
  ctorArgs,   \* <<npix, cell_size>> of the last constructor call, or <<>>
  ctorErr,    \* exception raised by the last constructor call, or None
  npix,       \* self.npix
  cell_size,  \* self.cell_size
  ll,         \* self.ll
  dll,        \* self.dll
  _image,     \* self._image (the trainable pixel array)
  corrfun,    \* self.corrfun (apodization matrix)
  C_re,       \* self.C_re, or NoObject while the attribute does not exist
  C_im,       \* self.C_im, or NoObject while the attribute does not exist
  dataset,    \* the dataset the caller is working with, or NoObject
  fwd,        \* outcome of forward() when it was the last operation
  lastOp,     \* the last operation performed on the object
  nUpdates,   \* parameter updates applied so far
  nFwd,       \* forward() calls since the last other operation
  view        \* what the last read of image or extent returned, or <<>>

imgVars == <<built, ctorArgs, ctorErr, npix, cell_size, ll, dll, _image,
             corrfun, C_re, C_im, dataset, fwd, lastOp, nUpdates, nFwd,
             view>>

NoFwd == [ok |-> FALSE, err |-> None, re |-> <<>>, im |-> <<>>]

ImgInit ==
  /\ built = FALSE
  /\ ctorArgs = <<>>
  /\ ctorErr = None
  /\ npix = 0
  /\ cell_size = 0
  /\ ll = <<>>
  /\ dll = 0
  /\ _image = <<>>
  /\ corrfun = <<>>
  /\ C_re = NoObject
  /\ C_im = NoObject
  /\ dataset = NoObject
  /\ fwd = NoFwd
  /\ lastOp = "init"
  /\ nUpdates = 0
  /\ nFwd = 0
  /\ view = <<>>

\* the failure of the constructor's argument checks (its assert statements)
ConfigurationError == "AssertionError"

\* The exception, if any, that MpolImage.__init__(npix, cell_size) raises
\* before the object is complete.
InitError(n, cs) ==
  IF n % 2 # 0 THEN "AssertionError"          \* assert npix % 2 == 0
  ELSE IF cs <= 0 THEN "AssertionError"       \* assert cell_size > 0.0
  ELSE IF n = 0 THEN "ZeroDivisionError"      \* npix * cell_size / npix
  ELSE IF n < 0 THEN "ValueError"             \* np.fft.fftfreq(npix < 0)
  ELSE None

\* MpolImage.precache_interpolation(dataset): the pair (C_re, C_im)
precache_interpolation(d, n) ==
  calc_matrices(d.uu, d.vv, rfftfreq(n), fftfreq(n), n)

(***************************************************************************)
(* The tutorial: floating point values.  A float is <<x>> for the finite   *)
(* value x and <<>> for a non-finite one (NaN, +inf, -inf).                *)
(***************************************************************************)
Fin(x) == <<x>>
NaN == <<>>
IsFinite(a) == a # NaN

FAdd(a, b) == IF a = NaN \/ b = NaN THEN NaN ELSE Fin(a[1] + b[1])
FSub(a, b) == IF a = NaN \/ b = NaN THEN NaN ELSE Fin(a[1] - b[1])
\* IEEE: 0 * nan and 0 * inf are nan
FMul(a, b) == IF a = NaN \/ b = NaN THEN NaN ELSE Fin(a[1] * b[1])

Sgn(x) == IF x > 0 THEN 1 ELSE IF x < 0 THEN -1 ELSE 0
FSgn(a) == IF a = NaN THEN NaN ELSE Fin(Sgn(a[1]))

RECURSIVE FSumSeq(_)
\* left-to-right sum of a sequence of floats
FSumSeq(s) == IF s = <<>> THEN Fin(0) ELSE FAdd(Head(s), FSumSeq(Tail(s)))

RECURSIVE ILog2(_)
\* floor(log2(x)) for x >= 1
ILog2(x) == IF x <= 1 THEN 0 ELSE 1 + ILog2(x \div 2)

RECURSIVE SetToSeq(_)
\* the elements of a finite set of integers in increasing order
SetToSeq(S) ==
  IF S = {} THEN <<>>
  ELSE LET m == CHOOSE x \in S : \A y \in S : x <= y
       IN <<m>> \o SetToSeq(S \ {m})

(***************************************************************************)
(* The tutorial: bounds and enumerated inputs.                             *)
(***************************************************************************)
MaxEpochs == 2       \* largest config["epochs"]
MaxK == 3            \* largest number of folds

\* pixels of the 2 x 2 model image and cells of its 2 x 2 visibility grid
Pix == (0..1) \X (0..1)
GridCells == 1..4

\* the hyperparameter dictionaries tried (lr, lambda_TV, prior_intensity and
\* TSV as in the first configuration of the tutorial, in model units)
Configs ==
  {[lr |-> 1, lambda_sparsity |-> w[1], lambda_TV |-> 0, entropy |-> w[2],
    prior_intensity |-> 1, TSV |-> 0, epochs |-> e] :
     w \in {<<1, 0>>, <<0, 1>>}, e \in 0..MaxEpochs}

\* model states: the pseudo-dirty initialisations saved in model.pt (one of
\* them with a pixel of zero flux), and the states a model may be in when
\* the script reaches train or cross_validate
RefStates ==
  {[p \in Pix |-> Fin(2)],
   [p \in Pix |-> IF p = <<0, 0>> THEN Fin(0) ELSE Fin(2)]}
StartStates == {[p \in Pix |-> Fin(2)], [p \in Pix |-> Fin(4)]}

\* the gridded visibilities: occupied cells, data value and weight per cell
GriddedDatasets ==
  {[mask |-> m, data |-> <<9, 1, 0, 2>>, weight |-> <<1, 1, 2, 1>>] :
     m \in {{1, 2, 3, 4}, {2, 3, 4}}}

\* dartboards: the polar cell of each visibility-grid cell
Dartboards == {<<1, 2, 2, 3>>, <<1, 2, 3, 4>>}
Seeds == {0, 42}
\* the default of train's logevery argument
DefaultLogEvery == 50
LogEveryInputs == {1, 2, DefaultLogEvery}

(***************************************************************************)
(* mpol.precomposed.SimpleNet, mpol.losses, mpol.connectors, torch.optim   *)
(***************************************************************************)
AllFinite(cube) == \A p \in Pix : IsFinite(cube[p])
Vals(cube) == [p \in Pix |-> cube[p][1]]

\* model.forward(): the visibility cube of the current image (flattened)
SimpleNet_forward(cube) ==
  IF AllFinite(cube)
    THEN [c \in GridCells |-> Fin(rfft_flat(Vals(cube), 2, "re")[c])]
    ELSE [c \in GridCells |-> NaN]

\* the pixels next to pixel p in the 2 x 2 image
Neighbours(p) == {<<1 - p[1], p[2]>>, <<p[1], 1 - p[2]>>}
\* each pair of adjacent pixels once
AdjacentPairs == {<<p, q>> \in Pix \X Pix : q \in Neighbours(p) /\ (p[1] < q[1] \/ p[2] < q[2])}

RECURSIVE SumOver(_, _)
\* sum of f over the finite set S
SumOver(f, S) ==
  IF S = {} THEN 0
  ELSE LET x == CHOOSE y \in S : TRUE IN f[x] + SumOver(f, S \ {x})

\* losses.nll_gridded(vis, dataset): weighted squared residuals on the mask
nll_gridded(vis, ds) ==
  IF \E c \in ds.mask : ~IsFinite(vis[c]) THEN NaN
  ELSE Fin(SumOver([c \in GridCells |-> ds.weight[c] * (vis[c][1] - ds.data[c]) * (vis[c][1] - ds.data[c])],
                   ds.mask))

\* losses.sparsity(cube): L1 norm
sparsity(cube) ==
  IF ~AllFinite(cube) THEN NaN
  ELSE Fin(SumOver([p \in Pix |-> Abs(cube[p][1])], Pix))

\* losses.TV_image(cube): total variation
TV_image(cube) ==
  IF ~AllFinite(cube) THEN NaN
  ELSE Fin(SumOver([pq \in AdjacentPairs |-> Abs(cube[pq[1]][1] - cube[pq[2]][1])], AdjacentPairs))

\* losses.TSV(cube): total squared variation
TSV(cube) ==
  IF ~AllFinite(cube) THEN NaN
  ELSE Fin(SumOver([pq \in AdjacentPairs |->
                      (cube[pq[1]][1] - cube[pq[2]][1]) * (cube[pq[1]][1] - cube[pq[2]][1])],
                   AdjacentPairs))

\* losses.entropy(cube, prior_intensity): sum of I log(I / prior); the
\* logarithm of a pixel that is not positive is not finite
entropy(cube, prior) ==
  IF ~AllFinite(cube) \/ \E p \in Pix : cube[p][1] <= 0 THEN NaN
  ELSE Fin(SumOver([p \in Pix |-> cube[p][1] * ILog2(cube[p][1] \div prior)], Pix))

\* the loss expression of train
train_loss(vis, cube, ds, cfg) ==
  FAdd(FAdd(FAdd(FAdd(nll_gridded(vis, ds),
                      FMul(Fin(cfg.lambda_sparsity), sparsity(cube))),
                 FMul(Fin(cfg.lambda_TV), TV_image(cube))),
            FMul(Fin(cfg.entropy), entropy(cube, cfg.prior_intensity))),
       FMul(Fin(cfg.TSV), TSV(cube)))

\* d loss / d cube[p], as loss.backward() computes it
loss_grad(cube, ds, cfg) ==
  LET vis == SimpleNet_forward(cube)
  IN [p \in Pix |->
       IF ~AllFinite(cube) THEN NaN
       ELSE
         LET x == Vals(cube)
             gnll == SumOver([c \in GridCells |->
                        2 * ds.weight[c] * (vis[c][1] - ds.data[c])
                          * TwRe(2, p[1] * ((c - 1) \div 2) + p[2] * ((c - 1) % 2))],
                        ds.mask)
             gsp == cfg.lambda_sparsity * Sgn(x[p])
             gtv == cfg.lambda_TV * SumOver([q \in Pix |-> Sgn(x[p] - x[q])], Neighbours(p))
             gtsv == cfg.TSV * SumOver([q \in Pix |-> 2 * (x[p] - x[q])], Neighbours(p))
         IN IF x[p] <= 0 THEN NaN
            ELSE Fin(gnll + gsp + gtv + gtsv
                       + cfg.entropy * (ILog2(x[p] \div cfg.prior_intensity) + 1))]

\* torch.optim.Adam(model.parameters(), lr): zeroed moment state
NewAdam(lr) == [lr |-> lr, step |-> 0, exp_avg |-> [p \in Pix |-> Fin(0)]]

\* optimizer.step(): the first moment accumulates the gradient and every
\* parameter moves by lr against the sign of its moment
AdamStep(o, cube, g) ==
  LET m == [p \in Pix |-> FAdd(o.exp_avg[p], g[p])]
  IN [opt |-> [lr |-> o.lr, step |-> o.step + 1, exp_avg |-> m],
      cube |-> [p \in Pix |-> FSub(cube[p], FMul(Fin(o.lr), FSgn(m[p])))]]

ZeroGrad == [p \in Pix |-> Fin(0)]

(***************************************************************************)
(* datasets.KFoldCrossValidatorGridded(dataset, k, dartboard, npseed)      *)
(***************************************************************************)
\* np.random.seed(npseed); shuffle: the permutation the seed fixes
Shuffle(list, seed) ==
  IF list = <<>> THEN <<>>
  ELSE [i \in 1..Len(list) |-> list[((i - 1 + seed) % Len(list)) + 1]]

\* the polar cells that hold data, in shuffled order
DartCellList(ds, dartboard, seed) ==
  Shuffle(SetToSeq({dartboard[c] : c \in ds.mask}), seed)

\* a split whose training set keeps the test cells
KFold_leaky(ds, k, dartboard, seed, i) ==
  LET cl == DartCellList(ds, dartboard, seed)
      tcells == {cl[j] : j \in {j \in 1..Len(cl) : (j - 1) % k = i}}
      tmask == {c \in ds.mask : dartboard[c] \in tcells}
  IN [train |-> ds, test |-> [ds EXCEPT !.mask = tmask]]

\* the (train, test) pair of fold i (from 0): polar cells are dealt
\* round-robin to the k folds, the fold's cells are its test set
KFold(ds, k, dartboard, seed, i) ==
  LET cl == DartCellList(ds, dartboard, seed)
      tcells == {cl[j] : j \in {j \in 1..Len(cl) : (j - 1) % k = i}}
      tmask == {c \in ds.mask : dartboard[c] \in tcells}
  IN [train |-> [ds EXCEPT !.mask = ds.mask \ tmask],
      test |-> [ds EXCEPT !.mask = tmask]]

(***************************************************************************)
(* State of the tutorial script.                                           *)
(***************************************************************************)
VARIABLES
  pc,            \* position of the script
  caller,        \* who called train: "main" or "cv"
  params,        \* the model's parameters (state_dict)
  training,      \* the model's mode: TRUE after model.train(), FALSE after eval()
  opt,           \* the optimizer in use
  grad,          \* the .grad of the parameters
  config,        \* the hyperparameter dictionary in use
  full,          \* the full gridded dataset
  tdataset,      \* the dataset argument of train
  writer,        \* TRUE if a SummaryWriter is passed, FALSE for writer=None
  logevery,      \* the logevery argument of train
  iteration,     \* loop variable of train
  vis,           \* local vis of train
  loss,          \* local loss of train (meaningful when lossBound)
  lossBound,     \* TRUE once the local variable loss is assigned
  ret,           \* value returned by train, then by cross_validate
  err,           \* the exception propagating to the top level, or None
  nForward,      \* forward evaluations of the current train call
  nLoss,         \* loss computations of the current train call
  nBackward,     \* backward passes of the current train call
  nStep,         \* optimizer steps of the current train call
  writerLog,     \* what the writer has been given, in order
  resid,         \* the residual connector's last computation, or NoObject
  model_pt,      \* the state_dict saved in the file MODEL_PATH
  kfoldArgs,     \* <<k, dartboard, npseed>> given to the cross validator
  k_fold_datasets, \* the list of (train, test) pairs
  k_fold,        \* index (from 0) of the fold in progress
  test_scores,   \* test_scores of cross_validate
  test_score     \* test_score of cross_validate, returned when pc = "done"

tutVars == <<pc, caller, params, training, opt, grad, config, full, tdataset,
             writer, logevery, iteration, vis, loss, lossBound, ret, err,
             nForward, nLoss, nBackward, nStep, writerLog, resid, model_pt,
             kfoldArgs, k_fold_datasets, k_fold, test_scores, test_score>>

vars == <<imgVars, tutVars>>

\* the tutorial's variables while only an MpolImage is exercised
TutIdle ==
  /\ pc = "idle"
  /\ caller = "main"
  /\ params = [p \in Pix |-> Fin(1)]
  /\ training = TRUE
  /\ opt = NoObject
  /\ grad = ZeroGrad
  /\ config = CHOOSE c \in Configs : c.epochs = 0 /\ c.entropy = 0
  /\ full = CHOOSE d \in GriddedDatasets : d.mask = GridCells
  /\ tdataset = full
  /\ writer = FALSE
  /\ logevery = 1
  /\ iteration = 0
  /\ vis = [c \in GridCells |-> Fin(0)]
  /\ loss = Fin(0)
  /\ lossBound = FALSE
  /\ ret = Fin(0)
  /\ err = None
  /\ nForward = 0
  /\ nLoss = 0
  /\ nBackward = 0
  /\ nStep = 0
  /\ writerLog = <<>>
  /\ resid = NoObject
  /\ model_pt = params
  /\ kfoldArgs = <<>>
  /\ k_fold_datasets = <<>>
  /\ k_fold = 0
  /\ test_scores = <<>>
  /\ test_score = Fin(0)

\* MpolImage.__init__(npix, cell_size, dataset=None)
Construct ==
  /\ ~built
  /\ \E n \in NpixInputs, cs \in CellSizeInputs, d \in Datasets \cup {NoObject} :
       /\ ctorArgs' = <<n, cs>>
       /\ ctorErr' = InitError(n, cs)
       /\ lastOp' = "construct"
       /\ IF InitError(n, cs) # None
            THEN UNCHANGED <<built, npix, cell_size, ll, dll, _image, corrfun,
                             C_re, C_im, dataset>>
            ELSE /\ built' = TRUE
                 /\ npix' = n
                 /\ cell_size' = cs
                 /\ ll' = fftspace(cs * (n \div 2), n)
                 /\ dll' = (n * cs) \div n
                 /\ _image' = [p \in (0..(n - 1)) \X (0..(n - 1)) |-> 1]
                 /\ corrfun' = corrfun_mat(fftshift(ll', n), fftshift(ll', n), n, cs)
                 /\ dataset' = d
                 /\ IF d # NoObject
                      THEN /\ C_re' = precache_interpolation(d, n).re
                           /\ C_im' = precache_interpolation(d, n).im
                      ELSE UNCHANGED <<C_re, C_im>>
       /\ nFwd' = 0
       /\ fwd' = NoFwd
       /\ UNCHANGED nUpdates
  /\ UNCHANGED view
  /\ UNCHANGED tutVars

\* model.precache_interpolation(d), called by the user with their dataset
Precache ==
  /\ built
  /\ \E d \in Datasets :
       /\ C_re' = precache_interpolation(d, npix).re
       /\ C_im' = precache_interpolation(d, npix).im
       /\ dataset' = d
  /\ lastOp' = "precache"
  /\ nFwd' = 0
  /\ fwd' = NoFwd
  /\ UNCHANGED <<built, ctorArgs, ctorErr, npix, cell_size, ll, dll, _image,
                 corrfun, nUpdates>>
  /\ UNCHANGED view
  /\ UNCHANGED tutVars

\* forward() with a fallback to empty predictions when no operator is cached
forward_unchecked(img, cf, d2, cre, cim, n) ==
  [ok |-> TRUE, err |-> None,
   re |-> IF cre = NoObject THEN <<>> ELSE <<0>>,
   im |-> IF cim = NoObject THEN <<>> ELSE <<0>>]

\* The value of MpolImage.forward() in the current state
forward(img, cf, d2, cre, cim, n) ==
  LET prod == [p \in DOMAIN img |-> img[p] * cf[p]]
      vr == [c \in 1..(n * ((n \div 2) + 1)) |-> d2 * rfft_flat(prod, n, "re")[c]]
      vi == [c \in 1..(n * ((n \div 2) + 1)) |-> d2 * rfft_flat(prod, n, "im")[c]]
  IN IF cre = NoObject \/ cim = NoObject
       THEN [ok |-> FALSE, err |-> "AttributeError", re |-> <<>>, im |-> <<>>]
       ELSE [ok |-> TRUE, err |-> None,
             re |-> sparse_mm(cre, vr), im |-> sparse_mm(cim, vi)]

\* forward() applying the correction to the parameter in place
forward_image_inplace(img) == [p \in DOMAIN img |-> img[p] * 2]

\* what a call of forward() leaves in self._image
forward_image(img) == img

\* model.forward()
Forward ==
  /\ built
  /\ nFwd < MaxForwards
  /\ nFwd' = nFwd + 1
  /\ fwd' = forward(_image, corrfun, dll * dll, C_re, C_im, npix)
  /\ _image' = forward_image(_image)
  /\ lastOp' = "forward"
  /\ UNCHANGED <<built, ctorArgs, ctorErr, npix, cell_size, ll, dll,
                 corrfun, C_re, C_im, dataset, nUpdates>>
  /\ UNCHANGED view
  /\ UNCHANGED tutVars

\* an optimizer step on the nn.Parameter self._image: one pixel moves
ParamStep ==
  /\ built
  /\ nUpdates < MaxUpdates
  /\ \E p \in StepPixels, delta \in {-1, 1} :
       /\ p \in DOMAIN _image
       /\ _image' = [_image EXCEPT ![p] = @ + delta]
  /\ nUpdates' = nUpdates + 1
  /\ lastOp' = "step"
  /\ nFwd' = 0
  /\ fwd' = NoFwd
  /\ UNCHANGED <<built, ctorArgs, ctorErr, npix, cell_size, ll, dll,
                 corrfun, C_re, C_im, dataset>>
  /\ UNCHANGED view
  /\ UNCHANGED tutVars

\* the caller goes on with another dataset (other sample coordinates)
\* without telling the model
ChangeDataset ==
  /\ built
  /\ \E d \in Datasets :
       /\ d # dataset
       /\ dataset' = d
  /\ lastOp' = "rebind"
  /\ nFwd' = 0
  /\ fwd' = NoFwd
  /\ UNCHANGED <<built, ctorArgs, ctorErr, npix, cell_size, ll, dll, _image,
                 corrfun, C_re, C_im, nUpdates>>
  /\ UNCHANGED view
  /\ UNCHANGED tutVars

Next ==
  \/ Construct
  \/ Precache
  \/ Forward
  \/ ParamStep
  \/ ChangeDataset

Init == ImgInit /\ TutIdle

Spec == Init /\ [][Next]_vars

(***************************************************************************)
(* The accessors MpolImage.image and MpolImage.extent.                     *)
(***************************************************************************)
\* np.fft.ifftshift of a 2-D array: every axis is rolled by -(n // 2)
ifftshift(x, n) ==
  [p \in (0..(n - 1)) \X (0..(n - 1)) |->
     x[<<(p[1] + (n \div 2)) % n, (p[2] + (n \div 2)) % n>>]]

\* a flip of the rows (np.flipud): the vertical axis is mirrored instead
flipud(x, n) ==
  [p \in (0..(n - 1)) \X (0..(n - 1)) |-> x[<<n - 1 - p[1], p[2]>>]]

\* np.fliplr: the order of the columns is reversed
fliplr(x, n) ==
  [p \in (0..(n - 1)) \X (0..(n - 1)) |-> x[<<p[1], n - 1 - p[2]>>]]

\* the value of the property image
image(img, n) == fliplr(ifftshift(img, n), n)

\* np.min and np.max of a 1-D array
np_min(x) == CHOOSE v \in {x[i] : i \in DOMAIN x} : \A i \in DOMAIN x : v <= x[i]
np_max(x) == CHOOSE v \in {x[i] : i \in DOMAIN x} : \A i \in DOMAIN x : v >= x[i]

\* the value of the property extent; self.ll is kept in arcseconds here, so
\* the division by arcsec has nothing left to do
extent(l) ==
  LET low == np_min(l)
      high == np_max(l)
  IN <<high, low, low, high>>

\* model.image
ReadImage ==
  /\ built
  /\ view' = image(_image, npix)
  /\ lastOp' = "image"
  /\ nFwd' = 0
  /\ fwd' = NoFwd
  /\ UNCHANGED <<built, ctorArgs, ctorErr, npix, cell_size, ll, dll, _image,
                 corrfun, C_re, C_im, dataset, nUpdates>>
  /\ UNCHANGED tutVars

\* model.extent
ReadExtent ==
  /\ built
  /\ view' = extent(ll)
  /\ lastOp' = "extent"
  /\ nFwd' = 0
  /\ fwd' = NoFwd
  /\ UNCHANGED <<built, ctorArgs, ctorErr, npix, cell_size, ll, dll, _image,
                 corrfun, C_re, C_im, dataset, nUpdates>>
  /\ UNCHANGED tutVars

\* image sides and pixel sizes of the models whose accessors are read
ViewNpix == {2, 4}
ViewCellSizes == {1, 2}

\* pixel arrays a model of side n may hold after training
ViewImages(n) ==
  IF n = 2
    THEN [(0..1) \X (0..1) -> {0, 1}] \cup {[p \in (0..1) \X (0..1) |-> 2 * p[1] + p[2] + 1]}
    ELSE {[p \in (0..(n - 1)) \X (0..(n - 1)) |-> n * p[1] + p[2]],
          [p \in (0..(n - 1)) \X (0..(n - 1)) |-> IF p = <<1, n - 1>> THEN 5 ELSE 1]}

\* an MpolImage built without a dataset whose pixels have been trained
ViewInit ==
  /\ built = TRUE
  /\ npix \in ViewNpix
  /\ cell_size \in ViewCellSizes
  /\ ctorArgs = <<npix, cell_size>>
  /\ ctorErr = None
  /\ ll = fftspace(cell_size * (npix \div 2), npix)
  /\ dll = (npix * cell_size) \div npix
  /\ _image \in ViewImages(npix)
  /\ corrfun = corrfun_mat(fftshift(ll, npix), fftshift(ll, npix), npix, cell_size)
  /\ C_re = NoObject
  /\ C_im = NoObject
  /\ dataset = NoObject
  /\ fwd = NoFwd
  /\ lastOp = "construct"
  /\ nUpdates = 0
  /\ nFwd = 0
  /\ view = <<>>
  /\ TutIdle

ViewNext ==
  \/ ReadImage
  \/ ReadExtent
  \/ ParamStep

SpecView == ViewInit /\ [][ViewNext]_vars

(***************************************************************************)
(* train(model, dataset, optimizer, config, writer=None, logevery=50)      *)
(***************************************************************************)
\* the choices the script's author makes before anything runs
TutInit ==
  /\ caller = "main"
  /\ params \in StartStates
  /\ training = TRUE
  /\ opt = NoObject
  /\ grad = ZeroGrad
  /\ config \in Configs
  /\ full \in GriddedDatasets
  /\ tdataset = full
  /\ writer \in BOOLEAN
  /\ logevery \in LogEveryInputs
  /\ iteration = 0
  /\ vis = [c \in GridCells |-> Fin(0)]
  /\ loss = Fin(0)
  /\ lossBound = FALSE
  /\ ret = Fin(0)
  /\ err = None
  /\ nForward = 0
  /\ nLoss = 0
  /\ nBackward = 0
  /\ nStep = 0
  /\ writerLog = <<>>
  /\ resid = NoObject
  /\ model_pt \in RefStates
  /\ kfoldArgs = <<>>
  /\ k_fold_datasets = <<>>
  /\ k_fold = 0
  /\ test_scores = <<>>
  /\ test_score = Fin(0)

\* model.load_state_dict(torch.load("model.pt")); optimizer = Adam(...);
\* train(model, dataset, optimizer, config, writer=writer)
TrainCall ==
  /\ pc = "main"
  /\ params' = model_pt
  /\ opt' = NewAdam(config.lr)
  /\ tdataset' = full
  /\ caller' = "main"
  /\ pc' = "train"
  /\ UNCHANGED <<training, grad, config, full, writer, logevery, iteration,
                 vis, loss, lossBound, ret, err, nForward, nLoss, nBackward,
                 nStep, writerLog, resid, model_pt, kfoldArgs,
                 k_fold_datasets, k_fold, test_scores>>
  /\ UNCHANGED test_score
  /\ UNCHANGED imgVars

\* model.train(); residuals = connectors.GriddedResidualConnector(...)
TrainEnter ==
  /\ pc = "train"
  /\ training' = TRUE
  /\ resid' = NoObject
  /\ iteration' = 0
  /\ lossBound' = FALSE
  /\ nForward' = 0
  /\ nLoss' = 0
  /\ nBackward' = 0
  /\ nStep' = 0
  /\ pc' = "loop"
  /\ UNCHANGED <<caller, params, opt, grad, config, full, tdataset, writer,
                 logevery, vis, loss, ret, err, writerLog, model_pt,
                 kfoldArgs, k_fold_datasets, k_fold, test_scores>>
  /\ UNCHANGED test_score
  /\ UNCHANGED imgVars

\* a loop that gives up as soon as the loss is not finite
loop_stops_on_nan(it, cfg, ls, bound) == it < cfg.epochs /\ (bound => IsFinite(ls))

\* the loop continues while iterations remain, whatever the loss is
loop_continues(it, cfg, ls, bound) == it < cfg.epochs

\* for iteration in range(config["epochs"]): optimizer.zero_grad()
LoopHead ==
  /\ pc = "loop"
  /\ IF loop_continues(iteration, config, loss, lossBound)
       THEN /\ grad' = ZeroGrad
            /\ pc' = "forward"
       ELSE /\ pc' = "return"
            /\ UNCHANGED grad
  /\ UNCHANGED <<caller, params, training, opt, config, full, tdataset,
                 writer, logevery, iteration, vis, loss, lossBound, ret, err,
                 nForward, nLoss, nBackward, nStep, writerLog, resid,
                 model_pt, kfoldArgs, k_fold_datasets, k_fold, test_scores>>
  /\ UNCHANGED test_score
  /\ UNCHANGED imgVars

\* vis = model.forward(); sky_cube = model.icube.sky_cube
ForwardEval ==
  /\ pc = "forward"
  /\ vis' = SimpleNet_forward(params)
  /\ nForward' = nForward + 1
  /\ pc' = "loss"
  /\ UNCHANGED <<caller, params, training, opt, grad, config, full, tdataset,
                 writer, logevery, iteration, loss, lossBound, ret, err,
                 nLoss, nBackward, nStep, writerLog, resid, model_pt,
                 kfoldArgs, k_fold_datasets, k_fold, test_scores>>
  /\ UNCHANGED test_score
  /\ UNCHANGED imgVars

\* model.forward() raising (torch reports a runtime failure)
ForwardFault ==
  /\ pc = "forward"
  /\ err' = "RuntimeError"
  /\ pc' = "raised"
  /\ UNCHANGED <<caller, params, training, opt, grad, config, full, tdataset,
                 writer, logevery, iteration, vis, loss, lossBound, ret,
                 nForward, nLoss, nBackward, nStep, writerLog, resid,
                 model_pt, kfoldArgs, k_fold_datasets, k_fold, test_scores>>
  /\ UNCHANGED test_score
  /\ UNCHANGED imgVars

\* loss = losses.nll_gridded(vis, dataset) + ...
LossCompute ==
  /\ pc = "loss"
  /\ loss' = train_loss(vis, params, tdataset, config)
  /\ lossBound' = TRUE
  /\ nLoss' = nLoss + 1
  /\ pc' = "log"
  /\ UNCHANGED <<caller, params, training, opt, grad, config, full, tdataset,
                 writer, logevery, iteration, vis, ret, err, nForward,
                 nBackward, nStep, writerLog, resid, model_pt, kfoldArgs,
                 k_fold_datasets, k_fold, test_scores>>
  /\ UNCHANGED test_score
  /\ UNCHANGED imgVars

\* residuals(): observed minus predicted visibility on the dataset's cells
residuals_call(v, ds) ==
  [c \in GridCells |-> IF c \in ds.mask THEN FSub(Fin(ds.data[c]), v[c]) ELSE Fin(0)]

\* a logging step that does not test whether a writer was given
Log_ignores_writer ==
  /\ pc = "log"
  /\ IF iteration % logevery = 0
       THEN /\ resid' = residuals_call(vis, tdataset)
            /\ writerLog' = writerLog \o
                 <<[tag |-> "loss", value |-> loss, step |-> iteration],
                   [tag |-> "image", value |-> Fin(0), step |-> iteration]>>
       ELSE UNCHANGED <<resid, writerLog>>
  /\ pc' = "backward"
  /\ UNCHANGED <<caller, params, training, opt, grad, config, full, tdataset,
                 writer, logevery, iteration, vis, loss, lossBound, ret, err,
                 nForward, nLoss, nBackward, nStep, model_pt, kfoldArgs,
                 k_fold_datasets, k_fold, test_scores>>
  /\ UNCHANGED test_score
  /\ UNCHANGED imgVars

\* if (iteration % logevery == 0) and writer is not None:
\*     writer.add_scalar(...); writer.add_figure(..., log_figure(...), ...)
Log ==
  /\ pc = "log"
  /\ IF iteration % logevery = 0 /\ writer
       THEN /\ resid' = residuals_call(vis, tdataset)
            /\ writerLog' = writerLog \o
                 <<[tag |-> "loss", value |-> loss, step |-> iteration],
                   [tag |-> "image", value |-> Fin(0), step |-> iteration]>>
       ELSE UNCHANGED <<resid, writerLog>>
  /\ pc' = "backward"
  /\ UNCHANGED <<caller, params, training, opt, grad, config, full, tdataset,
                 writer, logevery, iteration, vis, loss, lossBound, ret, err,
                 nForward, nLoss, nBackward, nStep, model_pt, kfoldArgs,
                 k_fold_datasets, k_fold, test_scores>>
  /\ UNCHANGED test_score
  /\ UNCHANGED imgVars

\* loss.backward()
Backward ==
  /\ pc = "backward"
  /\ grad' = [p \in Pix |-> FAdd(grad[p], loss_grad(params, tdataset, config)[p])]
  /\ nBackward' = nBackward + 1
  /\ pc' = "step"
  /\ UNCHANGED <<caller, params, training, opt, config, full, tdataset,
                 writer, logevery, iteration, vis, loss, lossBound, ret, err,
                 nForward, nLoss, nStep, writerLog, resid, model_pt,
                 kfoldArgs, k_fold_datasets, k_fold, test_scores>>
  /\ UNCHANGED test_score
  /\ UNCHANGED imgVars

\* optimizer.step(), end of the loop body
Step ==
  /\ pc = "step"
  /\ opt' = AdamStep(opt, params, grad).opt
  /\ params' = AdamStep(opt, params, grad).cube
  /\ nStep' = nStep + 1
  /\ iteration' = iteration + 1
  /\ pc' = "loop"
  /\ UNCHANGED <<caller, training, grad, config, full, tdataset, writer,
                 logevery, vis, loss, lossBound, ret, err, nForward, nLoss,
                 nBackward, writerLog, resid, model_pt, kfoldArgs,
                 k_fold_datasets, k_fold, test_scores>>
  /\ UNCHANGED test_score
  /\ UNCHANGED imgVars

\* a return that evaluates the loss of the parameters as the loop left them
TrainReturn_recomputes ==
  /\ pc = "return"
  /\ ret' = train_loss(SimpleNet_forward(params), params, tdataset, config)
  /\ pc' = IF caller = "main" THEN "done" ELSE "cv_test"
  /\ UNCHANGED <<caller, params, training, opt, grad, config, full, tdataset,
                 writer, logevery, iteration, vis, loss, lossBound, err,
                 nForward, nLoss, nBackward, nStep, writerLog, resid,
                 model_pt, kfoldArgs, k_fold_datasets, k_fold, test_scores>>
  /\ UNCHANGED test_score
  /\ UNCHANGED imgVars

\* return loss.item()
TrainReturn ==
  /\ pc = "return"
  /\ IF lossBound
       THEN /\ ret' = loss
            /\ pc' = IF caller = "main" THEN "done" ELSE "cv_test"
            /\ UNCHANGED err
       ELSE /\ err' = "UnboundLocalError"
            /\ pc' = "raised"
            /\ UNCHANGED ret
  /\ UNCHANGED <<caller, params, training, opt, grad, config, full, tdataset,
                 writer, logevery, iteration, vis, loss, lossBound, nForward,
                 nLoss, nBackward, nStep, writerLog, resid, model_pt,
                 kfoldArgs, k_fold_datasets, k_fold, test_scores>>
  /\ UNCHANGED test_score
  /\ UNCHANGED imgVars

TrainSteps ==
  \/ TrainEnter
  \/ LoopHead
  \/ ForwardEval
  \/ ForwardFault
  \/ LossCompute
  \/ Log
  \/ Backward
  \/ Step
  \/ TrainReturn

TrainNext == TrainCall \/ TrainSteps

TrainInit == ImgInit /\ TutInit /\ pc = "main"

SpecTrain == TrainInit /\ [][TrainNext]_vars

(***************************************************************************)
(* test(model, dataset) and                                                *)
(* cross_validate(model, config, k_fold_datasets, MODEL_PATH, writer=None) *)
(***************************************************************************)
PermsOf(n) == {f \in [1..n -> 1..n] : \A i, j \in 1..n : f[i] = f[j] => i = j}

\* k_fold_datasets = [(train, test) for (train, test) in cv]
k_fold_list(ds, k, dartboard, seed) ==
  [i \in 1..k |-> KFold(ds, k, dartboard, seed, i - 1)]

\* cv = datasets.KFoldCrossValidatorGridded(dataset, k, dartboard, npseed);
\* k_fold_datasets = [...]
MakeFolds ==
  /\ pc = "make_folds"
  /\ \E k \in 2..MaxK, dartboard \in Dartboards, seed \in Seeds :
       /\ kfoldArgs' = <<k, dartboard, seed>>
       /\ k_fold_datasets' = k_fold_list(full, k, dartboard, seed)
  /\ pc' = "cv_call"
  /\ UNCHANGED <<caller, params, training, opt, grad, config, full, tdataset,
                 writer, logevery, iteration, vis, loss, lossBound, ret, err,
                 nForward, nLoss, nBackward, nStep, writerLog, resid,
                 model_pt, k_fold, test_scores>>
  /\ UNCHANGED test_score
  /\ UNCHANGED imgVars

\* cross_validate(model, config, folds, MODEL_PATH, writer) is entered, the
\* caller handing over the folds in the order perm; test_scores = []
CrossValidateCall ==
  /\ pc = "cv_call"
  /\ \E perm \in PermsOf(Len(k_fold_datasets)) :
       k_fold_datasets' = [i \in 1..Len(k_fold_datasets) |-> k_fold_datasets[perm[i]]]
  /\ test_scores' = <<>>
  /\ k_fold' = 0
  /\ caller' = "cv"
  /\ pc' = "cv_loop"
  /\ UNCHANGED <<params, training, opt, grad, config, full, tdataset, writer,
                 logevery, iteration, vis, loss, lossBound, ret, err,
                 nForward, nLoss, nBackward, nStep, writerLog, resid,
                 model_pt, kfoldArgs>>
  /\ UNCHANGED test_score
  /\ UNCHANGED imgVars

\* a reset that leaves the parameters as the last fold trained them
load_state_dict_skipped(cube, saved) == cube

\* model.load_state_dict(torch.load(MODEL_PATH)): the parameters after it
load_state_dict(cube, saved) == saved

\* one optimizer kept for all folds
fold_optimizer_reused(o, lr) == IF o = NoObject THEN NewAdam(lr) ELSE o

\* the optimizer a fold trains with, given the one the last fold used
fold_optimizer(o, lr) == NewAdam(lr)

\* top of the fold loop: reset model, new optimizer, call train
CvFold ==
  /\ pc = "cv_loop"
  /\ k_fold < Len(k_fold_datasets)
  /\ params' = load_state_dict(params, model_pt)
  /\ opt' = fold_optimizer(opt, config.lr)
  /\ tdataset' = k_fold_datasets[k_fold + 1].train
  /\ pc' = "train"
  /\ UNCHANGED <<caller, training, grad, config, full, writer, logevery,
                 iteration, vis, loss, lossBound, ret, err, nForward, nLoss,
                 nBackward, nStep, writerLog, resid, model_pt, kfoldArgs,
                 k_fold_datasets, k_fold, test_scores>>
  /\ UNCHANGED test_score
  /\ UNCHANGED imgVars

\* test(model, dataset): the value it returns
test(cube, ds) == nll_gridded(SimpleNet_forward(cube), ds)

\* test_scores.append(test(model, test_dset)), end of the fold loop body
CvTest ==
  /\ pc = "cv_test"
  /\ training' = FALSE
  /\ test_scores' = Append(test_scores, test(params, k_fold_datasets[k_fold + 1].test))
  /\ k_fold' = k_fold + 1
  /\ pc' = "cv_loop"
  /\ UNCHANGED <<caller, params, opt, grad, config, full, tdataset, writer,
                 logevery, iteration, vis, loss, lossBound, ret, err,
                 nForward, nLoss, nBackward, nStep, writerLog, resid,
                 model_pt, kfoldArgs, k_fold_datasets>>
  /\ UNCHANGED test_score
  /\ UNCHANGED imgVars

\* a failing test that is swallowed: the fold is skipped
CvTestFault_skipped ==
  /\ pc = "cv_test"
  /\ training' = FALSE
  /\ k_fold' = k_fold + 1
  /\ pc' = "cv_loop"
  /\ UNCHANGED <<caller, params, opt, grad, config, full, tdataset, writer,
                 logevery, iteration, vis, loss, lossBound, ret, err, nForward,
                 nLoss, nBackward, nStep, writerLog, resid, model_pt,
                 kfoldArgs, k_fold_datasets, test_scores>>
  /\ UNCHANGED test_score
  /\ UNCHANGED imgVars

\* model.forward() raising inside test
CvTestFault ==
  /\ pc = "cv_test"
  /\ training' = FALSE
  /\ err' = "RuntimeError"
  /\ pc' = "raised"
  /\ UNCHANGED <<caller, params, opt, grad, config, full, tdataset, writer,
                 logevery, iteration, vis, loss, lossBound, ret, nForward,
                 nLoss, nBackward, nStep, writerLog, resid, model_pt,
                 kfoldArgs, k_fold_datasets, k_fold, test_scores>>
  /\ UNCHANGED test_score
  /\ UNCHANGED imgVars

\* test_score = np.sum(np.array(test_scores))
cv_aggregate(scores) == FSumSeq(scores)

\* a cross_validate that stores the trained model at MODEL_PATH on its way out
CvFinish_saves ==
  /\ pc = "cv_loop"
  /\ k_fold >= Len(k_fold_datasets)
  /\ test_score' = cv_aggregate(test_scores)
  /\ writerLog' = IF writer
                    THEN Append(writerLog, [tag |-> "Cross Validation",
                                            value |-> cv_aggregate(test_scores),
                                            step |-> -1])
                    ELSE writerLog
  /\ model_pt' = params
  /\ pc' = "done"
  /\ UNCHANGED <<caller, params, training, opt, grad, config, full, tdataset,
                 writer, logevery, iteration, vis, loss, lossBound, ret, err,
                 nForward, nLoss, nBackward, nStep, resid,
                 kfoldArgs, k_fold_datasets, k_fold, test_scores>>
  /\ UNCHANGED imgVars

\* after the fold loop: sum, writer.add_scalar("Cross Validation", ...), return
CvFinish ==
  /\ pc = "cv_loop"
  /\ k_fold >= Len(k_fold_datasets)
  /\ test_score' = cv_aggregate(test_scores)
  /\ writerLog' = IF writer
                    THEN Append(writerLog, [tag |-> "Cross Validation",
                                            value |-> cv_aggregate(test_scores),
                                            step |-> -1])
                    ELSE writerLog
  /\ pc' = "done"
  /\ UNCHANGED <<caller, params, training, opt, grad, config, full, tdataset,
                 writer, logevery, iteration, vis, loss, lossBound, ret, err,
                 nForward, nLoss, nBackward, nStep, resid, model_pt,
                 kfoldArgs, k_fold_datasets, k_fold, test_scores>>
  /\ UNCHANGED imgVars

\* the script goes on to its next cross_validate(model, new_config,
\* k_fold_datasets, MODEL_PATH, writer=cv_writer): another configuration
\* and another writer, the same model object and the same file; the locals
\* of the calls that have returned are gone
CvAgain ==
  /\ pc = "done"
  /\ caller = "cv"
  /\ config' \in Configs
  /\ writer' \in BOOLEAN
  /\ writerLog' = <<>>
  /\ opt' = NoObject
  /\ tdataset' = full
  /\ iteration' = 0
  /\ vis' = [c \in GridCells |-> Fin(0)]
  /\ loss' = Fin(0)
  /\ lossBound' = FALSE
  /\ ret' = Fin(0)
  /\ nForward' = 0
  /\ nLoss' = 0
  /\ nBackward' = 0
  /\ nStep' = 0
  /\ resid' = NoObject
  /\ k_fold' = 0
  /\ test_scores' = <<>>
  /\ test_score' = Fin(0)
  /\ pc' = "cv_call"
  /\ UNCHANGED <<caller, params, training, grad, full, logevery, err,
                 model_pt, kfoldArgs, k_fold_datasets>>
  /\ UNCHANGED imgVars

CvNext ==
  \/ MakeFolds
  \/ CrossValidateCall
  \/ CvFold
  \/ CvTest
  \/ CvTestFault
  \/ CvFinish
  \/ CvAgain
  \/ TrainSteps

\* cross_validate calls train without logevery
CvInit == ImgInit /\ TutInit /\ pc = "make_folds" /\ logevery = DefaultLogEvery

SpecCV == CvInit /\ [][CvNext]_vars

(***************************************************************************)
(* Properties of MpolImage (specification Spec).                           *)
(***************************************************************************)

C2_InvalidGridRejected ==
  (lastOp = "construct" /\ ctorArgs # <<>>) =>
    ((ctorArgs[1] % 2 # 0 \/ ctorArgs[1] <= 0 \/ ctorArgs[2] <= 0)
       => (ctorErr = ConfigurationError /\ ~built))

\* C3: a forward() call changes neither the pixel array, the apodization
\* matrix nor the cached operators, and a forward() call that directly
\* follows another one returns the same predictions.
C3_ForwardPure ==
  [][(nFwd' = nFwd + 1) =>
       /\ UNCHANGED <<_image, corrfun, C_re, C_im>>
       /\ (nFwd >= 1 => fwd' = fwd)]_imgVars

C3_Witness ==
  /\ nFwd = 2 /\ fwd.ok /\ nUpdates = 1
  /\ \E k \in 1..Len(fwd.re) : fwd.re[k] # 0

\* C4 (as claimed): whenever forward() succeeds, the cached operators are
\* those of the dataset the caller is working with, and the result has one
\* entry per sample of that dataset.
C4_OperatorsMatchDataset ==
  (lastOp = "forward" /\ fwd.ok) =>
    /\ C_re = precache_interpolation(dataset, npix).re
    /\ C_im = precache_interpolation(dataset, npix).im
    /\ Len(fwd.re) = Len(dataset.uu)
    /\ Len(fwd.im) = Len(dataset.uu)

(***************************************************************************)
(* Properties of train (specification SpecTrain).                          *)
(***************************************************************************)

\* C5: when train leaves its loop it has performed exactly config["epochs"]
\* iterations, each made of one forward evaluation, one loss computation,
\* one backward pass and one parameter step; inside the loop the four
\* counts follow the position in the iteration.
C5_FullIterationCount ==
  /\ (pc \in {"return", "done"} \/ (pc = "raised" /\ err = "UnboundLocalError")) =>
       /\ iteration = config.epochs
       /\ nForward = config.epochs /\ nLoss = config.epochs
       /\ nBackward = config.epochs /\ nStep = config.epochs
  /\ pc \in {"loop", "forward", "loss", "log", "backward", "step"} =>
       /\ iteration <= config.epochs
       /\ nStep = iteration
       /\ nForward = iteration + (IF pc \in {"loss", "log", "backward", "step"} THEN 1 ELSE 0)
       /\ nLoss = iteration + (IF pc \in {"log", "backward", "step"} THEN 1 ELSE 0)
       /\ nBackward = iteration + (IF pc = "step" THEN 1 ELSE 0)

C5_Witness ==
  /\ pc = "done" /\ config.epochs = MaxEpochs /\ nStep = MaxEpochs
  /\ nForward = MaxEpochs /\ ~IsFinite(ret)

\* C6 (as claimed): a loss that is not finite ends the run at that
\* iteration: no backward pass or parameter step follows it and train
\* returns no value.
C6_DivergenceStopsRun ==
  /\ (pc \in {"backward", "step"} => IsFinite(loss))
  /\ (pc = "done" => IsFinite(ret))

(***************************************************************************)
(* Properties of cross_validate (specification SpecCV).                    *)
(***************************************************************************)
\* a cube as the tuple of its four pixel values, and back
CubeTuple(cube) == <<cube[<<0, 0>>], cube[<<0, 1>>], cube[<<1, 0>>], cube[<<1, 1>>]>>
TupleCube(t) == [p \in Pix |-> t[2 * p[1] + p[2] + 1]]

RECURSIVE TrainRun(_, _, _, _, _)
\* the parameters after n iterations of train from (cube, o) on dataset ds
TrainRun(cube, o, ds, cfg, n) ==
  IF n = 0 THEN cube
  ELSE LET g == CubeTuple([p \in Pix |-> FAdd(ZeroGrad[p], loss_grad(cube, ds, cfg)[p])])
           r == AdamStep(o, cube, TupleCube(g))
           c == CubeTuple(r.cube)
           m == CubeTuple(r.opt.exp_avg)
       IN TrainRun(TupleCube(c), [r.opt EXCEPT !.exp_avg = TupleCube(m)], ds, cfg, n - 1)

\* the held-out score of fold f when trained from the reference state with
\* a fresh optimizer
FoldScore(f) ==
  test(TrainRun(model_pt, NewAdam(config.lr), f.train, config, config.epochs), f.test)

\* the folds in the order the cross validator yields them
CanonicalFolds == k_fold_list(full, kfoldArgs[1], kfoldArgs[2], kfoldArgs[3])

\* C7: every fold's training starts from the reference parameters of
\* MODEL_PATH with a fresh optimizer, and the score recorded for a fold is
\* the held-out loss, on the fold's test subset, of the model as that
\* fold's training left it.
C7_FoldsStartFromReference ==
  /\ (caller = "cv" /\ pc = "train") =>
       /\ params = model_pt
       /\ opt = NewAdam(config.lr)
       /\ tdataset = k_fold_datasets[k_fold + 1].train
       /\ Len(test_scores) = k_fold
  /\ (caller = "cv" /\ pc = "cv_loop" /\ k_fold >= 1) =>
       /\ Len(test_scores) = k_fold
       /\ nStep = config.epochs
       /\ test_scores[k_fold] = test(params, k_fold_datasets[k_fold].test)

C7_Witness ==
  /\ caller = "cv" /\ pc = "train" /\ k_fold >= 1 /\ config.epochs >= 1
  /\ Len(test_scores) = k_fold /\ IsFinite(test_scores[1])
  /\ params = model_pt /\ opt.step = 0

\* C8: the value cross_validate returns is the sum of the per-fold held-out
\* scores, and it is the value obtained for the folds in the cross
\* validator's own order, whatever order they were processed in.
C8_SumOrderInvariant ==
  (caller = "cv" /\ pc = "done") =>
    /\ test_score = FSumSeq(test_scores)
    /\ Len(test_scores) = Len(CanonicalFolds)
    /\ test_score = FSumSeq([i \in 1..Len(CanonicalFolds) |-> FoldScore(CanonicalFolds[i])])

C8_Witness ==
  /\ caller = "cv" /\ pc = "done" /\ config.epochs >= 1
  /\ k_fold_datasets # CanonicalFolds
  /\ IsFinite(test_score)
  /\ \E i, j \in 1..Len(test_scores) : test_scores[i] # test_scores[j]

\* C9: the fold test sets are pairwise disjoint and cover the dataset, their
\* sizes add up to the dataset size, no polar cell is split between two
\* test sets, and in every fold train and test are disjoint and together
\* are the whole dataset.
C9_ExactPartition ==
  pc # "make_folds" =>
    LET F == k_fold_datasets
        K == 1..Len(F)
    IN /\ Len(F) = kfoldArgs[1]
       /\ \A i, j \in K : i # j => F[i].test.mask \cap F[j].test.mask = {}
       /\ UNION {F[i].test.mask : i \in K} = full.mask
       /\ SumSeq([i \in K |-> Cardinality(F[i].test.mask)]) = Cardinality(full.mask)
       /\ \A i \in K : /\ F[i].train.mask \cap F[i].test.mask = {}
                       /\ F[i].train.mask \cup F[i].test.mask = full.mask
       /\ \A i \in K : \A c \in F[i].test.mask : \A d \in full.mask :
            kfoldArgs[2][c] = kfoldArgs[2][d] => d \in F[i].test.mask

C9_Witness ==
  /\ pc = "cv_call" /\ kfoldArgs[1] = 3
  /\ \E i \in 1..Len(k_fold_datasets) : Cardinality(k_fold_datasets[i].test.mask) >= 2
  /\ \A i \in 1..Len(k_fold_datasets) : k_fold_datasets[i].test.mask # {}

\* C10: an exception in a fold's training or test ends cross_validate: the
\* fold loop stands where the fold failed, the failed fold has no score,
\* and an aggregate is computed, returned or given to the writer only when
\* every fold has completed without an exception.
C10_FoldFailureAborts ==
  /\ (err # None) <=> (pc = "raised")
  /\ (caller = "cv" /\ pc = "raised") =>
       /\ k_fold < Len(k_fold_datasets)
       /\ Len(test_scores) = k_fold
       /\ test_score = Fin(0)
       /\ \A i \in 1..Len(writerLog) : writerLog[i].tag # "Cross Validation"
  /\ (caller = "cv" /\ (pc = "done" \/ \E i \in 1..Len(writerLog) : writerLog[i].tag = "Cross Validation")) =>
       /\ err = None
       /\ k_fold = Len(k_fold_datasets)
       /\ Len(test_scores) = Len(k_fold_datasets)

C10_Witness ==
  /\ caller = "cv" /\ pc = "raised" /\ err = "RuntimeError"
  /\ k_fold >= 1 /\ Len(test_scores) >= 1 /\ writer

(***************************************************************************)
(* Further properties of train (specification SpecTrain).                  *)
(***************************************************************************)
\* the loss train computes in the iteration that follows n parameter updates
\* of a run from the reference state, whatever writer and logevery are
LossAfter(n) ==
  LET P == TrainRun(model_pt, NewAdam(config.lr), tdataset, config, n)
  IN train_loss(SimpleNet_forward(P), P, tdataset, config)

\* the iterations below n that satisfy iteration % logevery == 0
LoggedIterations(n) == {i \in 0..(n - 1) : i % logevery = 0}

\* C11: the parameters after each update, the loss of each iteration and
\* the returned loss are functions of the reference state, the dataset and
\* the configuration alone, so they are the same with a writer, for every
\* positive logevery, and with writer=None; with writer=None nothing is
\* emitted and the residual connector is never evaluated, and with a writer
\* one loss and one image are emitted for each iteration that is a multiple
\* of logevery.
C11_WriterNonInterfering ==
  pc # "main" =>
    /\ params = TrainRun(model_pt, NewAdam(config.lr), tdataset, config, nStep)
    /\ (lossBound => loss = LossAfter(nLoss - 1))
    /\ (pc = "done" => ret = LossAfter(config.epochs - 1))
    /\ (~writer => (writerLog = <<>> /\ resid = NoObject))
    /\ (writer =>
         /\ Len(writerLog) = 2 * Cardinality(LoggedIterations(nBackward + (IF pc = "backward" THEN 1 ELSE 0)))
         /\ \A i \in 1..Len(writerLog) :
              /\ writerLog[i].step % logevery = 0
              /\ writerLog[i].tag = (IF i % 2 = 1 THEN "loss" ELSE "image")
              /\ (i % 2 = 1 => writerLog[i].value = LossAfter(writerLog[i].step)))

C11_Witness ==
  /\ pc = "done" /\ writer /\ logevery = 2 /\ config.epochs = MaxEpochs
  /\ Len(writerLog) = 2 * Cardinality(LoggedIterations(MaxEpochs))
  /\ resid # NoObject /\ IsFinite(ret)
  /\ params # model_pt

(***************************************************************************)
(* Properties of the accessors (specification SpecView).                   *)
(***************************************************************************)
\* C12: image returns V with V[i][j] = P[(i + npix/2) mod npix]
\* [((npix - 1 - j) + npix/2) mod npix] for the stored array P; extent
\* returns [high, low, low, high] for the largest and smallest image
\* coordinate, with high > low; and a read of image or extent leaves the
\* stored pixel array as it was.
C12_ImageOrientation ==
  /\ [](lastOp = "image" =>
         /\ DOMAIN view = (0..(npix - 1)) \X (0..(npix - 1))
         /\ \A i, j \in 0..(npix - 1) :
              view[<<i, j>>] = _image[<<(i + npix \div 2) % npix,
                                       ((npix - 1 - j) + npix \div 2) % npix>>])
  /\ [](lastOp = "extent" =>
         /\ view = <<np_max(ll), np_min(ll), np_min(ll), np_max(ll)>>
         /\ view[1] > view[2]
         /\ view[3] < view[4])
  /\ [][lastOp' \in {"image", "extent"} => _image' = _image]_vars

C12_Witness ==
  /\ lastOp = "image" /\ npix = 4 /\ nUpdates = 1
  /\ \A p, q \in DOMAIN _image : p # q => _image[p] # _image[q]
  /\ view # _image
  /\ view[<<0, 0>>] = _image[<<2, 1>>]

\* C13: the value train returns is the loss of the last iteration, computed
\* from the parameters as they were after epochs - 1 updates, while the
\* parameters it leaves have had epochs updates; with epochs = 0 the loop
\* body never runs, no loss exists, and train raises (UnboundLocalError)
\* instead of returning.
C13_ReturnedLossIsStale ==
  /\ pc = "done" =>
       /\ config.epochs >= 1
       /\ ret = loss
       /\ ret = LossAfter(config.epochs - 1)
       /\ params = TrainRun(model_pt, NewAdam(config.lr), tdataset, config, config.epochs)
  /\ (config.epochs = 0 /\ pc \notin {"main", "train", "loop", "return"}) =>
       /\ pc = "raised" /\ err = "UnboundLocalError"
       /\ ~lossBound /\ ret = Fin(0)

C13_Witness ==
  /\ pc = "done" /\ config.epochs >= 1 /\ nStep = config.epochs
  /\ params # model_pt
  /\ IsFinite(ret)
  /\ IsFinite(train_loss(SimpleNet_forward(params), params, tdataset, config))
  /\ ret # train_loss(SimpleNet_forward(params), params, tdataset, config)

(***************************************************************************)
(* Further properties of cross_validate (specification SpecCV).            *)
(***************************************************************************)
\* C14: no step of cross_validate, in any of its successive runs, writes
\* the snapshot at MODEL_PATH, so every fold of every run starts from the
\* same reference parameters; the caller's model is changed in place, and
\* when cross_validate returns its parameters are those trained on the
\* training subset of the fold processed last.
C14_ReferenceKeptModelMutated ==
  /\ [][model_pt' = model_pt]_vars
  /\ []((caller = "cv" /\ pc = "train") => params = model_pt)
  /\ []((caller = "cv" /\ pc = "done") =>
         params = TrainRun(model_pt, NewAdam(config.lr),
                           k_fold_datasets[Len(k_fold_datasets)].train,
                           config, config.epochs))

\* a later run is about to start its first fold, and the model still holds
\* what the earlier run left: neither the reference state nor a fit to the
\* full dataset under any configuration
C14_Witness ==
  /\ caller = "cv" /\ pc = "cv_loop" /\ k_fold = 0 /\ ~training
  /\ config.epochs >= 1
  /\ params # model_pt
  /\ \A c \in Configs : params # TrainRun(model_pt, NewAdam(c.lr), full, c, c.epochs)

====
